---------------------------- MODULE Spec2Model ----------------------------
(***************************************************************************)
(* A model of the private homomorphic-linear-authenticator proof of        *)
(* storage of F483/heartbeat (private_hla: src/unnamed/part_000) and of    *)
(* its Python binding (src/cxx/SwPriv.hxx).                                *)
(*                                                                         *)
(* TLC's integers are 32 bits wide, so the byte is scaled down to          *)
(* ByteBits bits: a word is still WordBytes bytes, every length field and  *)
(* every big integer is still a big-endian string of bytes, and            *)
(* sector_size is still ByteCount(p) / 8, but a prime of eight bytes now   *)
(* fits a TLC integer.  CryptoPP is an external library; AES-CFB, HMAC and *)
(* the PRF are modelled by what they do (a keyed, length-preserving stream *)
(* cipher that only the right key and IV invert; a keyed digest of         *)
(* DigestSize bytes; a keyed function into [0, limit)).                    *)
(***************************************************************************)
EXTENDS Integers, Sequences, FiniteSets, TLC

----------------------------------------------------------------------------
(* Bounds of the model *)

ByteBits == 2
MaxFileLen == 2
MaxFileByte == 1
MaxSectors == 2
NumKeys == 2
MaxUses == 2
MaxCodecLen == 2
MaxHashLen == 96

(* the sizes of CryptoPP's keys, IVs and digests, in bytes of ByteBits bits *)
KeySize == 4
IVLength == 4
DigestSize == 8

(* Program constants: sizeof(unsigned int), and the divisor of init *)

WordBytes == 4
SectorDivisor == 8

ByteRadix == 2 ^ ByteBits
WordRadix == ByteRadix ^ WordBytes

----------------------------------------------------------------------------
(* Byte strings *)

Min(a, b) == IF a < b THEN a ELSE b
Max(a, b) == IF a < b THEN b ELSE a

Take(s, k) == SubSeq(s, 1, Min(k, Len(s)))
Drop(s, k) == SubSeq(s, Min(k, Len(s)) + 1, Len(s))
Zeros(k) == [i \in 1..k |-> 0]

(* CryptoPP::Integer::ByteCount: bytes needed for x, 0 for x = 0 *)
RECURSIVE ByteCount(_)
ByteCount(x) == IF x = 0 THEN 0 ELSE 1 + ByteCount(x \div ByteRadix)

(* CryptoPP::Integer::MinEncodedSize(UNSIGNED) *)
MinEncodedSize(x) == Max(1, ByteCount(x))

(* CryptoPP::Integer::Encode(bt, sz): the low sz bytes of x, big-endian *)
IntegerEncode(x, sz) ==
    [i \in 1..sz |-> (x \div (ByteRadix ^ (sz - i))) % ByteRadix]

(* Decode reading its bytes in little-endian order *)
RECURSIVE IntegerDecodeLittleEndian(_)
IntegerDecodeLittleEndian(bs) ==
    IF bs = <<>> THEN 0
    ELSE bs[1] + ByteRadix * IntegerDecodeLittleEndian(SubSeq(bs, 2, Len(bs)))

(* CryptoPP::Integer::Decode(bt, n): the bytes read, as a big-endian number *)
RECURSIVE IntegerDecode(_)
IntegerDecode(bs) ==
    IF bs = <<>> THEN 0
    ELSE IntegerDecode(SubSeq(bs, 1, Len(bs) - 1)) * ByteRadix + bs[Len(bs)]

(* the byte of bs at position i, 0 past its end *)
ByteAt(bs, i) == IF i <= Len(bs) THEN bs[i] ELSE 0

(* htonl / ntohl on a little-endian host: the four bytes of the word reversed *)
Htonl(x) ==
    (((x % ByteRadix) * ByteRadix + ((x \div ByteRadix) % ByteRadix)) * ByteRadix
        + ((x \div (ByteRadix ^ 2)) % ByteRadix)) * ByteRadix
      + ((x \div (ByteRadix ^ 3)) % ByteRadix)
Ntohl(x) == Htonl(x)

(* BufferedTransformation::PutWord32 (big-endian order) *)
PutWord32(x) ==
    << (x \div (ByteRadix ^ 3)) % ByteRadix, (x \div (ByteRadix ^ 2)) % ByteRadix,
       (x \div ByteRadix) % ByteRadix, x % ByteRadix >>

(* BufferedTransformation::GetWord32: reads up to a word, missing bytes are 0 *)
GetWord32(bs) ==
    ((ByteAt(bs, 1) * ByteRadix + ByteAt(bs, 2)) * ByteRadix + ByteAt(bs, 3)) * ByteRadix
      + ByteAt(bs, 4)

----------------------------------------------------------------------------
(* Randomness, and CryptoPP's primitives *)

KeySeeds == 1..NumKeys
IVSeeds == 1..1

(* rng.GenerateBlock(k, key_size): one of NumKeys distinct keys *)
KeyBytes(seed) == [i \in 1..KeySize |-> (seed * i) % ByteRadix]
IVBytes(seed) == [i \in 1..IVLength |-> (seed + i) % ByteRadix]

RECURSIVE PowMod(_, _, _)
PowMod(b, e, m) ==
    IF e = 0 THEN 1
    ELSE LET h == PowMod(b, e \div 2, m)
         IN  (((h * h) % m) * (IF e % 2 = 1 THEN b ELSE 1)) % m

(* the digest: a polynomial in the bytes, modulo a prime below
   ByteRadix ^ DigestSize; HashPower[e] is the weight of the byte e places
   from the end *)
HashPower == [e \in 0..MaxHashLen |-> PowMod(131, e, 32749)]

RECURSIVE HashRange(_, _, _)
HashRange(bs, lo, hi) ==
    IF lo > hi THEN 0
    ELSE IF lo = hi THEN (bs[lo] + 1) * HashPower[Len(bs) - lo]
    ELSE HashRange(bs, lo, (lo + hi) \div 2) + HashRange(bs, (lo + hi) \div 2 + 1, hi)

HashNum(bs) == (7 * HashPower[Len(bs)] + HashRange(bs, 1, Len(bs))) % 32749

(* HMAC<SHA256>: a keyed digest of DigestSize bytes *)
HMAC(key, data) ==
    IntegerEncode(HashNum(key \o data), DigestSize)

(* CFB_Mode<AES>: a stream cipher, the keystream set by the key and the IV *)
KeyStream(key, iv, i) ==
    LET k == IF key = <<>> THEN 0 ELSE key[((i - 1) % Len(key)) + 1]
        v == IF iv = <<>> THEN 0 ELSE iv[((i - 1) % Len(iv)) + 1]
    IN  (k * (i + 1) + v + i) % ByteRadix

CFBEncrypt(key, iv, pt) ==
    [i \in 1..Len(pt) |-> (pt[i] + KeyStream(key, iv, i)) % ByteRadix]

CFBDecrypt(key, iv, ct) ==
    [i \in 1..Len(ct) |-> (ct[i] + ByteRadix - KeyStream(key, iv, i)) % ByteRadix]

(* prf::evaluate(i): HMAC of the domain tag and i under the key, reduced into
   [0, limit); limit = 0 has no value (the reduction divides by zero) *)
PrfDefined(limit) == limit > 0
PrfEvaluate(key, limit, tagc, i) ==
    HashNum(<<tagc>> \o key \o PutWord32(i % WordRadix)) % limit


----------------------------------------------------------------------------
(* The chunked view of a file: n chunks of sectors * sector_size bytes *)

(* seekable_file::blocks_remaining(sz), for sz > 0 *)
blocks_remaining(len, sz) == (len + sz - 1) \div sz

ChunkSize(v) == v.sectors * v.sector_size

(* file::get_chunk_count after redefine_chunks(sector_size, sectors) *)
get_chunk_count(f, v) == blocks_remaining(Len(f), ChunkSize(v))

(* integer_block_file_interface::get_sector(i, j): the sector's bytes, zero
   past the end of the file, as a big-endian integer *)
get_sector(f, v, i, j) ==
    LET off == (i * v.sectors + j) * v.sector_size
    IN  IntegerDecode([k \in 1..v.sector_size |->
                          IF off + k <= Len(f) THEN f[off + k] ELSE 0])

----------------------------------------------------------------------------
(* Objects as constructed *)

NewTag == [sigma |-> <<>>]
NewState == [n |-> 0, f_key |-> <<>>, f_limit |-> 0, alpha_key |-> <<>>,
             alpha_limit |-> 0, raw |-> <<>>, sealed |-> FALSE]
NewChallenge == [l |-> 0, key |-> <<>>, v_limit |-> 0, i_limit |-> 0]
NewProof == [mu |-> <<>>, sigma |-> 0]

(* the domain tags of the four PRFs *)
state_f(s, i) == PrfEvaluate(s.f_key, s.f_limit, 1, i)
state_alpha(s, i) == PrfEvaluate(s.alpha_key, s.alpha_limit, 2, i)
indexer_evaluate(c, limit, i) == PrfEvaluate(c.key, limit, 3, i)
challenge_v(c, i) == PrfEvaluate(c.key, c.v_limit, 4, i)

(* n = htonl(x); PutWord32(n) *)
PutU32(x) == PutWord32(Htonl(x))
(* GetWord32(n); ntohl(n) *)
GetU32(bs) == Ntohl(GetWord32(bs))

----------------------------------------------------------------------------
(* The wire codec of tag, challenge and proof *)

(* an integer after its size: MinEncodedSize, htonl, PutWord32, Encode *)
put_integer(x) == PutU32(MinEncodedSize(x)) \o IntegerEncode(x, MinEncodedSize(x))

RECURSIVE put_integers(_)
put_integers(xs) ==
    IF xs = <<>> THEN <<>> ELSE put_integer(Head(xs)) \o put_integers(Tail(xs))

(* GetWord32, ntohl, Decode: the integer read and the bytes left *)
get_integer(bs) ==
    [val |-> IntegerDecode(Take(Drop(bs, WordBytes), GetU32(bs))),
     rest |-> Drop(bs, WordBytes + GetU32(bs))]

(* the loop of tag::deserialize and proof::deserialize: k integers *)
RECURSIVE get_integers(_, _)
get_integers(bs, k) ==
    IF k = 0 THEN [vals |-> <<>>, rest |-> bs]
    ELSE LET t == get_integers(get_integer(bs).rest, k - 1)
         IN  [vals |-> <<get_integer(bs).val>> \o t.vals, rest |-> t.rest]

(* tag::serialize(bt) *)
tag_serialize(t) == PutU32(Len(t.sigma)) \o put_integers(t.sigma)

(* tag::deserialize(bt) *)
tag_deserialize(t, bs) ==
    [t EXCEPT !.sigma = get_integers(Drop(bs, WordBytes), GetU32(bs)).vals]

(* challenge::serialize(bt) *)
challenge_serialize(c) ==
    PutU32(c.l) \o PutU32(Len(c.key)) \o c.key \o put_integer(c.v_limit)

(* challenge::deserialize(bt): l, the key, and the limit of the coefficients *)
challenge_key_size(bs) == GetU32(Drop(bs, WordBytes))
challenge_deserialize(c, bs) ==
    [c EXCEPT !.l = GetU32(bs),
              !.key = Take(Drop(bs, 2 * WordBytes), challenge_key_size(bs)),
              !.v_limit = get_integer(Drop(bs, 2 * WordBytes + challenge_key_size(bs))).val]

(* proof::serialize(bt) *)
proof_serialize(p) == PutU32(Len(p.mu)) \o put_integers(p.mu) \o put_integer(p.sigma)

(* proof::deserialize(bt) *)
proof_deserialize(p, bs) ==
    LET r == get_integers(Drop(bs, WordBytes), GetU32(bs))
    IN  [p EXCEPT !.mu = r.vals, !.sigma = get_integer(r.rest).val]

----------------------------------------------------------------------------
(* private_hla_data::state *)

state_copy(s) == s

(* the callee working on the caller's object instead of on its copy *)
state_shared(s_enc, s) == s

(* the caller's state after a call that took it as `const state &s_enc` and
   opened the local `state s = s_enc` *)
caller_state(s_enc, s) == s_enc

(* encrypt_and_sign's three buffers: enc_data, sig_data and raw_data *)
seal_enc_data(s, k_enc, iv) ==
    CFBEncrypt(k_enc, iv, PutU32(Len(s.f_key)) \o s.f_key
                            \o PutU32(Len(s.alpha_key)) \o s.alpha_key)

seal_sig_data(n, iv, enc_data) ==
    PutU32(n) \o PutU32(Len(iv)) \o iv \o PutU32(Len(enc_data)) \o enc_data

seal_raw_data(sig_data, mac) ==
    PutU32(Len(sig_data)) \o sig_data \o PutU32(Len(mac)) \o mac

seal_signed(k_mac, sig_data) == seal_raw_data(sig_data, HMAC(k_mac, sig_data))

(* state::encrypt_and_sign(k_enc, k_mac), iv the IV the generator returns *)
encrypt_and_sign(s, k_enc, k_mac, iv) ==
    [s EXCEPT !.raw = seal_signed(k_mac, seal_sig_data(s.n, iv, seal_enc_data(s, k_enc, iv))),
              !.sealed = TRUE]

(* a filter that takes any digest of the right length *)
HashVerifyAnyDigest(k_mac, msg) == Len(msg) >= DigestSize

(* HashVerificationFilter(hmac, NULL, HASH_AT_END) over sig_data + mac_data:
   the last DigestSize bytes are the digest of what precedes them *)
HashVerify(k_mac, msg) ==
    /\ Len(msg) >= DigestSize
    /\ HMAC(k_mac, Take(msg, Len(msg) - DigestSize)) = Drop(msg, Len(msg) - DigestSize)

(* check_sig_and_decrypt's reads of _raw: the signed data, the mac size, the mac *)
raw_sig_data(raw) == Take(Drop(raw, WordBytes), GetU32(raw))
raw_after_sig(raw) == Drop(raw, WordBytes + GetU32(raw))
raw_mac_size(raw) == GetU32(raw_after_sig(raw))
raw_mac_data(raw) == Take(Drop(raw_after_sig(raw), WordBytes), raw_mac_size(raw))

(* its reads of the signed data: n, the IV, the encrypted data *)
sig_n(sig) == GetU32(sig)
sig_iv_sz(sig) == GetU32(Drop(sig, WordBytes))
sig_iv(sig) == Take(Drop(sig, 2 * WordBytes), sig_iv_sz(sig))
sig_after_iv(sig) == Drop(sig, 2 * WordBytes + sig_iv_sz(sig))
sig_enc(sig) == Take(Drop(sig_after_iv(sig), WordBytes), GetU32(sig_after_iv(sig)))

(* its reads of the decrypted data: the two keys, each after its size *)
df_f_key(df) == Take(Drop(df, WordBytes), GetU32(df))
df_after_f(df) == Drop(df, WordBytes + GetU32(df))
df_alpha_key(df) == Take(Drop(df_after_f(df), WordBytes), GetU32(df_after_f(df)))
df_short(df) == \/ Len(df_f_key(df)) < GetU32(df)
                \/ Len(df_alpha_key(df)) < GetU32(df_after_f(df))

CheckResult(thrown, ok, garbage, s) ==
    [thrown |-> thrown, ok |-> ok, garbage |-> garbage, s |-> s]

(* check_sig_and_decrypt once the signature holds: parse and decrypt *)
open_decrypted(s, n, df) ==
    CheckResult(FALSE, TRUE, df_short(df),
                [s EXCEPT !.n = n, !.f_key = df_f_key(df), !.alpha_key = df_alpha_key(df)])

open_signed(s, k_enc, sig) ==
    IF sig_iv_sz(sig) # IVLength \/ Len(sig_iv(sig)) # IVLength
      THEN CheckResult(TRUE, FALSE, FALSE, [s EXCEPT !.n = sig_n(sig)])
    ELSE open_decrypted(s, sig_n(sig), CFBDecrypt(k_enc, sig_iv(sig), sig_enc(sig)))

(* state::check_sig_and_decrypt(k_enc, k_mac):
   thrown (state not sealed, or an IV of the wrong length), else ok = the
   value returned and s = the state afterwards; garbage when a key was read
   past the end of the decrypted data *)
check_sig_and_decrypt(s, k_enc, k_mac) ==
    IF ~s.sealed THEN CheckResult(TRUE, FALSE, FALSE, s)
    ELSE IF raw_mac_size(s.raw) # DigestSize THEN CheckResult(FALSE, FALSE, FALSE, s)
    ELSE IF ~HashVerify(k_mac, raw_sig_data(s.raw) \o raw_mac_data(s.raw))
      THEN CheckResult(FALSE, FALSE, FALSE, s)
    ELSE open_signed(s, k_enc, raw_sig_data(s.raw))

(* serialize without the test of _encrypted_and_signed *)
state_serialize_unchecked(s) ==
    [thrown |-> FALSE, bytes |-> PutU32(Len(s.raw)) \o s.raw]

(* state::serialize(bt): the bytes written, or thrown *)
state_serialize(s) ==
    IF ~s.sealed THEN [thrown |-> TRUE, bytes |-> <<>>]
    ELSE [thrown |-> FALSE, bytes |-> PutU32(Len(s.raw)) \o s.raw]

(* state::deserialize(bt) *)
state_deserialize(s, bs) ==
    LET raw_sz == GetU32(bs)
    IN  [s EXCEPT !.raw = Take(Drop(bs, WordBytes), raw_sz), !.sealed = TRUE]

(* state::public_interpretation(): n read at offset sizeof(unsigned int) *)
public_interpretation(s) ==
    IF ~s.sealed THEN [thrown |-> TRUE, s |-> s]
    ELSE [thrown |-> FALSE, s |-> [s EXCEPT !.n = GetU32(Drop(s.raw, WordBytes))]]

----------------------------------------------------------------------------
(* private_hla: the verifier *)

(* the primes the sampler is explored on *)
Primes == {7, 16411}

(* private_hla::init(prime_size_bytes, sectors): k_enc, k_mac and p are what
   the generator returned, p a prime in [0, 2^(8 * prime_size_bytes)] *)
init(sectors, k_enc, k_mac, p) ==
    [k_enc |-> k_enc, k_mac |-> k_mac, sectors |-> sectors, p |-> p,
     sector_size |-> ByteCount(p) \div SectorDivisor]

(* get_public leaving h its own number of sectors *)
get_public_without_sectors(v, h) == [h EXCEPT !.p = v.p, !.sector_size = v.sector_size]

(* private_hla::get_public(h) *)
get_public(v, h) ==
    [h EXCEPT !.p = v.p, !.sectors = v.sectors, !.sector_size = v.sector_size]

(* encode's inner loop: sigma_i after the first j sectors *)
RECURSIVE encode_sigma(_, _, _, _, _)
encode_sigma(v, s, f, i, j) ==
    IF j = 0 THEN state_f(s, i)
    ELSE (encode_sigma(v, s, f, i, j - 1)
            + state_alpha(s, j - 1) * get_sector(f, v, i, j - 1)) % v.p

(* encode without t.sigma().clear(): the authenticators are appended *)
encode_appending(v, t, s, f, n, k_prf, k_alpha, iv) ==
    LET s1 == [s EXCEPT !.n = n, !.f_key = k_prf, !.f_limit = v.p,
                        !.alpha_key = k_alpha, !.alpha_limit = v.p]
    IN  [t |-> [t EXCEPT !.sigma = @ \o [i \in 1..n |-> encode_sigma(v, s1, f, i - 1, v.sectors)]],
         s |-> encrypt_and_sign(s1, v.k_enc, v.k_mac, iv)]

(* private_hla::encode(t, s, f) on a file of n chunks; k_prf, k_alpha and iv
   are what the generator returned *)
encode(v, t, s, f, n, k_prf, k_alpha, iv) ==
    LET s1 == [s EXCEPT !.n = n, !.f_key = k_prf, !.f_limit = v.p,
                        !.alpha_key = k_alpha, !.alpha_limit = v.p]
    IN  [t |-> [t EXCEPT !.sigma = [i \in 1..n |-> encode_sigma(v, s1, f, i - 1, v.sectors)]],
         s |-> encrypt_and_sign(s1, v.k_enc, v.k_mac, iv)]

(* private_hla::gen_challenge(c, s_enc, l, B): ok = the value returned *)
gen_challenge_lB(v, c, s_enc, l, B, k) ==
    LET r == check_sig_and_decrypt(state_copy(s_enc), v.k_enc, v.k_mac)
        s == caller_state(s_enc, r.s)
    IN  IF r.thrown THEN [thrown |-> TRUE, ok |-> FALSE, c |-> c, s_enc |-> s]
        ELSE IF ~r.ok THEN [thrown |-> FALSE, ok |-> FALSE, c |-> c, s_enc |-> s]
        ELSE [thrown |-> FALSE, ok |-> TRUE, s_enc |-> s,
              c |-> [c EXCEPT !.l = l, !.key = k, !.v_limit = B, !.i_limit = r.s.n]]

(* private_hla::gen_challenge(c, s): thrown when the state does not open *)
gen_challenge(v, c, s, k) ==
    LET r == gen_challenge_lB(v, c, s, s.n, v.p, k)
    IN  [thrown |-> r.thrown \/ ~r.ok, c |-> r.c, s_enc |-> r.s_enc]

(* prove's inner loop without the coefficients v_i *)
RECURSIVE prove_mu_unweighted(_, _, _, _, _, _)
prove_mu_unweighted(v, c, f, nf, j, i) ==
    IF i = 0 THEN 0
    ELSE (prove_mu_unweighted(v, c, f, nf, j, i - 1)
            + get_sector(f, v, indexer_evaluate(c, nf, i - 1), j)) % v.p

(* prove's inner loop: mu_j after the first i challenged chunks *)
RECURSIVE prove_mu(_, _, _, _, _, _)
prove_mu(v, c, f, nf, j, i) ==
    IF i = 0 THEN 0
    ELSE (prove_mu(v, c, f, nf, j, i - 1)
            + challenge_v(c, i - 1)
                * get_sector(f, v, indexer_evaluate(c, nf, i - 1), j)) % v.p

(* prove's second loop: [thrown, sigma] after the first i challenged chunks;
   t.sigma().at() throws past the end of the tag *)
RECURSIVE prove_sigma(_, _, _, _, _, _)
prove_sigma(v, c, t, nf, sigma0, i) ==
    IF i = 0 THEN [thrown |-> FALSE, sigma |-> sigma0]
    ELSE LET r == prove_sigma(v, c, t, nf, sigma0, i - 1)
             idx == indexer_evaluate(c, nf, i - 1)
         IN  IF r.thrown \/ idx >= Len(t.sigma) THEN [thrown |-> TRUE, sigma |-> r.sigma]
             ELSE [thrown |-> FALSE,
                   sigma |-> (r.sigma + challenge_v(c, i - 1) * t.sigma[idx + 1]) % v.p]

(* private_hla::prove(p, c, f, t) on a file of nf chunks *)
prove(v, p, c, f, nf, t) ==
    IF c.l > 0 /\ v.sectors > 0 /\ ~(PrfDefined(c.v_limit) /\ PrfDefined(nf))
      THEN [thrown |-> TRUE, p |-> [p EXCEPT !.mu = Zeros(v.sectors)]]
    ELSE IF c.l > 0 /\ ~(PrfDefined(c.v_limit) /\ PrfDefined(nf))
      THEN [thrown |-> TRUE, p |-> [p EXCEPT !.mu = <<>>]]
    ELSE LET mu == [j \in 1..v.sectors |-> prove_mu(v, c, f, nf, j - 1, c.l)]
             r == prove_sigma(v, c, t, nf, p.sigma, c.l)
         IN  [thrown |-> r.thrown, p |-> [mu |-> mu, sigma |-> r.sigma]]

(* verify's two loops *)
RECURSIVE verify_rhs_f(_, _, _, _)
verify_rhs_f(v, c, s, i) ==
    IF i = 0 THEN 0
    ELSE (verify_rhs_f(v, c, s, i - 1)
            + challenge_v(c, i - 1) * state_f(s, indexer_evaluate(c, s.n, i - 1))) % v.p

RECURSIVE verify_rhs(_, _, _, _, _)
verify_rhs(v, p, c, s, j) ==
    IF j = 0 THEN verify_rhs_f(v, c, s, c.l)
    ELSE (verify_rhs(v, p, c, s, j - 1) + state_alpha(s, j - 1) * p.mu[j]) % v.p

(* private_hla::verify(p, c, s_enc): thrown, else res = the value returned;
   free when the opened keys hold bytes read past the decrypted data *)
verify(v, p, c, s_enc) ==
    LET r == check_sig_and_decrypt(state_copy(s_enc), v.k_enc, v.k_mac)
        s == r.s
        e == caller_state(s_enc, r.s)
    IN  IF r.thrown THEN [thrown |-> TRUE, res |-> FALSE, free |-> FALSE, s_enc |-> e]
        ELSE IF ~r.ok THEN [thrown |-> FALSE, res |-> FALSE, free |-> FALSE, s_enc |-> e]
        ELSE IF c.l > 0 /\ ~(PrfDefined(c.v_limit) /\ PrfDefined(s.n) /\ PrfDefined(s.f_limit))
          THEN [thrown |-> TRUE, res |-> FALSE, free |-> FALSE, s_enc |-> e]
        ELSE IF v.sectors > 0 /\ ~PrfDefined(s.alpha_limit)
          THEN [thrown |-> TRUE, res |-> FALSE, free |-> FALSE, s_enc |-> e]
        ELSE IF Len(p.mu) < v.sectors
          THEN [thrown |-> TRUE, res |-> FALSE, free |-> FALSE, s_enc |-> e]
        ELSE [thrown |-> FALSE, free |-> r.garbage, s_enc |-> e,
              res |-> (p.sigma = verify_rhs(v, p, c, s, v.sectors))]

(* private_hla::serialize(bt) *)
private_hla_serialize(v) ==
    PutU32(KeySize) \o v.k_enc \o PutU32(KeySize) \o v.k_mac
      \o PutU32(v.sectors) \o PutU32(v.sector_size) \o put_integer(v.p)

(* private_hla::deserialize(bt) into the verifier h: the two keys, each after
   its size, then one word and that many bytes decoded into p *)
private_hla_deserialize(h, bs) ==
    IF GetU32(bs) # KeySize THEN [thrown |-> TRUE, h |-> h]
    ELSE IF GetU32(Drop(bs, WordBytes + KeySize)) # KeySize
      THEN [thrown |-> TRUE,
            h |-> [h EXCEPT !.k_enc = Take(Drop(bs, WordBytes), KeySize)]]
    ELSE [thrown |-> FALSE,
          h |-> [h EXCEPT !.k_enc = Take(Drop(bs, WordBytes), KeySize),
                          !.k_mac = Take(Drop(bs, 2 * WordBytes + KeySize), KeySize),
                          !.p = get_integer(Drop(bs, 2 * WordBytes + 2 * KeySize)).val]]

----------------------------------------------------------------------------
(* The program's state *)

VARIABLES
    V,        \* the private verifier (a SwPriv object after gen)
    pub,      \* <<>> or <<the second SwPriv object, from get_public or deserialize>>
    file,     \* the bytes of the file
    tag,      \* the Tag object
    st,       \* the State object
    chal,     \* the Challenge object
    proof,    \* the Proof object
    wire,     \* <<>> or the bytes a serialize wrote last, with their kind
    sent,     \* history: <<>> or <<the object that serialize read>>
    out,      \* the last call: what was called, on which verifier, how it ended
    enc,      \* history: <<>> or <<the encode that completed>>
    gc,       \* history: <<>> or <<the last successful gen_challenge>>
    pr,       \* history: <<>> or <<the last completed prove>>
    uses      \* history: how many times prove wrote into the Proof object

vars == <<V, pub, file, tag, st, chal, proof, wire, sent, out, enc, gc, pr, uses>>

Files == UNION {[1..k -> 0..MaxFileByte] : k \in 0..MaxFileLen}

Who == {"V", "P"}
Has(w) == w = "V" \/ pub # <<>>
Verifier(w) == IF w = "V" THEN V ELSE pub[1]

Out(op, w, thrown, res) == [op |-> op, by |-> w, thrown |-> thrown, res |-> res]

(* SwPriv::SwPriv: gen(); the generator's two keys differ *)
Init ==
    /\ \E s \in 1..MaxSectors, ke \in KeySeeds, p \in Primes :
         \E km \in KeySeeds \ {ke} :
            V = init(s, KeyBytes(ke), KeyBytes(km), p)
    /\ pub = <<>>
    /\ file \in Files
    /\ tag = NewTag
    /\ st = NewState
    /\ chal = NewChallenge
    /\ proof = NewProof
    /\ wire = <<>>
    /\ sent = <<>>
    /\ out = Out("gen", "V", FALSE, FALSE)
    /\ enc = <<>>
    /\ gc = <<>>
    /\ pr = <<>>
    /\ uses = 0

(* SwPriv::_get_public: a new SwPriv object (its constructor calls gen), then
   get_public into it; the public form is handed out before anything else *)
GetPublic ==
    /\ pub = <<>> /\ out.op = "gen"
    /\ \E ke \in KeySeeds, p \in Primes, s \in 1..MaxSectors :
         \E km \in KeySeeds \ {ke} :
            pub' = <<get_public(V, init(s, KeyBytes(ke), KeyBytes(km), p))>>
    /\ out' = Out("get_public", "V", FALSE, FALSE)
    /\ UNCHANGED <<V, file, tag, st, chal, proof, wire, enc, gc, pr, uses, sent>>

(* SwPriv::_encode: new Tag and State objects, then encode on verifier w.
   A chunk of 0 bytes makes blocks_remaining divide by zero: the call traps,
   or the quotient is 0 *)
Encode(w) ==
    /\ Has(w)
    /\ tag = NewTag /\ st = NewState /\ chal = NewChallenge /\ proof = NewProof
    /\ enc = <<>>
    /\ \E kf \in KeySeeds, ka \in KeySeeds, iv \in IVSeeds, trap \in BOOLEAN :
        LET v == Verifier(w) IN
        IF trap
        THEN /\ ChunkSize(v) = 0
             /\ out' = Out("encode", w, TRUE, FALSE)
             /\ UNCHANGED <<tag, st, enc>>
        ELSE LET n == IF ChunkSize(v) = 0 THEN 0 ELSE get_chunk_count(file, v)
                 r == encode(v, tag, st, file, n, KeyBytes(kf), KeyBytes(ka), IVBytes(iv))
             IN  /\ tag' = r.t
                 /\ st' = r.s
                 /\ out' = Out("encode", w, FALSE, FALSE)
                 /\ enc' = <<[by |-> w, file |-> file, t |-> r.t, s |-> r.s]>>
    /\ UNCHANGED <<V, pub, file, chal, proof, wire, gc, pr, uses, sent>>

(* private_hla::encode called again, on another file, into the Tag and State
   objects that an earlier encode filled; enc keeps the first encode *)
Reencode ==
    /\ enc # <<>> /\ ChunkSize(V) > 0
    /\ \E f \in Files, kf \in KeySeeds, ka \in KeySeeds, iv \in IVSeeds :
        LET r == encode(V, tag, st, f, get_chunk_count(f, V),
                        KeyBytes(kf), KeyBytes(ka), IVBytes(iv))
        IN  /\ file' = f
            /\ tag' = r.t
            /\ st' = r.s
            /\ out' = Out("encode_again", "V", FALSE, FALSE)
    /\ UNCHANGED <<V, pub, chal, proof, wire, enc, gc, pr, uses, sent>>

(* the State object no longer holds the bytes encode sealed *)
Tampered == enc # <<>> /\ st.raw # enc[1].s.raw

(* gen_challenge(c, s) on verifier w; a challenge opens a round, before any
   proof of that round, and is asked again once the stored state has changed *)
GenChallenge(w) ==
    /\ Has(w)
    /\ uses = 0 \/ Tampered
    /\ \E k \in KeySeeds :
        LET r == gen_challenge(Verifier(w), chal, st, KeyBytes(k))
        IN  /\ chal' = r.c
            /\ st' = r.s_enc
            /\ out' = Out("gen_challenge", w, r.thrown, FALSE)
            /\ gc' = IF r.thrown THEN gc ELSE <<[by |-> w, s |-> st, c |-> r.c]>>
    /\ UNCHANGED <<V, pub, file, tag, proof, wire, enc, pr, uses, sent>>

(* prove(p, c, f, t) on verifier w, into a new Proof object (SwPriv::_prove)
   or into the Proof object at hand *)
Prove(w, fresh) ==
    /\ Has(w)
    /\ IF fresh THEN uses = 0 ELSE uses \in 1..(MaxUses - 1)
    /\ \E trap \in BOOLEAN :
        LET v == Verifier(w) IN
        IF trap
        THEN /\ ChunkSize(v) = 0
             /\ out' = Out("prove", w, TRUE, FALSE)
             /\ UNCHANGED <<proof, pr, uses>>
        ELSE LET nf == IF ChunkSize(v) = 0 THEN 0 ELSE get_chunk_count(file, v)
                 r == prove(v, IF fresh THEN NewProof ELSE proof, chal, file, nf, tag)
             IN  /\ proof' = r.p
                 /\ out' = Out("prove", w, r.thrown, FALSE)
                 /\ uses' = uses + 1
                 /\ pr' = IF r.thrown THEN <<>>
                          ELSE <<[by |-> w, fresh |-> fresh /\ uses = 0, file |-> file,
                                  c |-> chal, t |-> tag]>>
    /\ UNCHANGED <<V, pub, file, tag, st, chal, wire, enc, gc, sent>>

(* verify(p, c, s) on verifier w, of a proof that prove wrote *)
Verify(w) ==
    /\ Has(w)
    /\ uses > 0
    /\ LET r == verify(Verifier(w), proof, chal, st)
       IN  \E b \in BOOLEAN :
             /\ r.free \/ b = r.res
             /\ st' = r.s_enc
             /\ out' = Out("verify", w, r.thrown, b)
    /\ UNCHANGED <<V, pub, file, tag, chal, proof, wire, enc, gc, pr, uses, sent>>

(* the server's copy of the file changes in one byte, between encode and prove *)
FlipFileByte ==
    /\ enc # <<>> /\ file = enc[1].file
    /\ uses = 0
    /\ \E i \in 1..Len(file), b \in 0..MaxFileByte :
         /\ b # file[i]
         /\ file' = [file EXCEPT ![i] = b]
    /\ out' = Out("flip", "V", FALSE, FALSE)
    /\ UNCHANGED <<V, pub, tag, st, chal, proof, wire, enc, gc, pr, uses, sent>>

(* the round ends: the caller drops the Challenge and the Proof *)
NewRound ==
    /\ uses > 0
    /\ chal' = NewChallenge
    /\ proof' = NewProof
    /\ uses' = 0
    /\ gc' = <<>>
    /\ pr' = <<>>
    /\ out' = Out("round", "V", FALSE, FALSE)
    /\ UNCHANGED <<V, pub, file, tag, st, wire, enc, sent>>

(* the stored state changes in one byte, after the proof was computed *)
TamperState ==
    /\ enc # <<>> /\ st = enc[1].s
    /\ pr # <<>> /\ out.op = "prove"
    /\ \E i \in 1..Len(st.raw), b \in 0..(ByteRadix - 1) :
         /\ b # st.raw[i]
         /\ st' = [st EXCEPT !.raw[i] = b]
    /\ out' = Out("tamper", "V", FALSE, FALSE)
    /\ UNCHANGED <<V, pub, file, tag, chal, proof, wire, sent, enc, gc, pr, uses>>

(* Proof::__setstate__ on bytes the server sends instead of those of the
   proof it computed: one mu value more, or the last one missing *)
ReshapeProof ==
    /\ pr # <<>> /\ out.op = "prove"
    /\ \E q \in {[proof EXCEPT !.mu = Append(@, m)] : m \in {0, 1}}
                \cup {[proof EXCEPT !.mu = Take(@, Len(@) - 1)]} :
         /\ q # proof
         /\ proof' = proof_deserialize(NewProof, proof_serialize(q))
    /\ out' = Out("proof_deserialize", "V", FALSE, FALSE)
    /\ UNCHANGED <<V, pub, file, tag, st, chal, wire, sent, enc, gc, pr, uses>>

Wire(kind, bytes) == [kind |-> kind, bytes |-> bytes]
OnWire(kind) == wire # <<>> /\ wire[1].kind = kind

(* State::__getstate__: state::serialize of the State object *)
StateSerialize ==
    /\ LET r == state_serialize(st)
       IN  /\ wire' = IF r.thrown THEN wire ELSE <<Wire("state", r.bytes)>>
           /\ sent' = IF r.thrown THEN sent ELSE <<st>>
           /\ out' = Out("state_serialize", "V", r.thrown, FALSE)
    /\ UNCHANGED <<V, pub, file, tag, st, chal, proof, enc, gc, pr, uses>>

(* State::__setstate__: state::deserialize into a new State object *)
StateDeserialize ==
    /\ OnWire("state")
    /\ st' = state_deserialize(NewState, wire[1].bytes)
    /\ out' = Out("state_deserialize", "V", FALSE, FALSE)
    /\ UNCHANGED <<V, pub, file, tag, chal, proof, wire, sent, enc, gc, pr, uses>>

(* State::_decrypt(encryption_key, hmac_key) with the keys of verifier w:
   check_sig_and_decrypt on the State object itself; res = the value returned *)
StateDecrypt(w) ==
    /\ Has(w)
    /\ LET r == check_sig_and_decrypt(st, Verifier(w).k_enc, Verifier(w).k_mac)
       IN  /\ st' = r.s
           /\ out' = Out("decrypt", w, r.thrown, r.ok)
    /\ UNCHANGED <<V, pub, file, tag, chal, proof, wire, sent, enc, gc, pr, uses>>

TagSerialize ==
    /\ wire = <<>>
    /\ wire' = <<Wire("tag", tag_serialize(tag))>>
    /\ sent' = <<tag>>
    /\ out' = Out("tag_serialize", "V", FALSE, FALSE)
    /\ UNCHANGED <<V, pub, file, tag, st, chal, proof, enc, gc, pr, uses>>

(* tag::deserialize into a new Tag object *)
TagDeserialize ==
    /\ OnWire("tag")
    /\ tag' = tag_deserialize(NewTag, wire[1].bytes)
    /\ out' = Out("tag_deserialize", "V", FALSE, FALSE)
    /\ UNCHANGED <<V, pub, file, st, chal, proof, wire, sent, enc, gc, pr, uses>>

ChallengeSerialize ==
    /\ wire = <<>>
    /\ wire' = <<Wire("challenge", challenge_serialize(chal))>>
    /\ sent' = <<chal>>
    /\ out' = Out("challenge_serialize", "V", FALSE, FALSE)
    /\ UNCHANGED <<V, pub, file, tag, st, chal, proof, enc, gc, pr, uses>>

(* challenge::deserialize into a new Challenge object *)
ChallengeDeserialize ==
    /\ OnWire("challenge")
    /\ chal' = challenge_deserialize(NewChallenge, wire[1].bytes)
    /\ out' = Out("challenge_deserialize", "V", FALSE, FALSE)
    /\ UNCHANGED <<V, pub, file, tag, st, proof, wire, sent, enc, gc, pr, uses>>

ProofSerialize ==
    /\ wire = <<>>
    /\ wire' = <<Wire("proof", proof_serialize(proof))>>
    /\ sent' = <<proof>>
    /\ out' = Out("proof_serialize", "V", FALSE, FALSE)
    /\ UNCHANGED <<V, pub, file, tag, st, chal, proof, enc, gc, pr, uses>>

(* proof::deserialize into a new Proof object *)
ProofDeserialize ==
    /\ OnWire("proof")
    /\ proof' = proof_deserialize(NewProof, wire[1].bytes)
    /\ out' = Out("proof_deserialize", "V", FALSE, FALSE)
    /\ UNCHANGED <<V, pub, file, tag, st, chal, wire, sent, enc, gc, pr, uses>>

(* SwPriv::__getstate__: private_hla::serialize of the verifier *)
VerifierSerialize ==
    /\ wire = <<>>
    /\ wire' = <<Wire("verifier", private_hla_serialize(V))>>
    /\ sent' = <<V>>
    /\ out' = Out("verifier_serialize", "V", FALSE, FALSE)
    /\ UNCHANGED <<V, pub, file, tag, st, chal, proof, enc, gc, pr, uses>>

(* SwPriv::__setstate__: private_hla::deserialize into a new SwPriv object
   (its constructor calls gen) *)
VerifierDeserialize ==
    /\ OnWire("verifier") /\ pub = <<>>
    /\ \E ke \in KeySeeds, p \in Primes, s \in 1..MaxSectors :
         \E km \in KeySeeds \ {ke} :
            LET r == private_hla_deserialize(init(s, KeyBytes(ke), KeyBytes(km), p),
                                             wire[1].bytes)
            IN  /\ pub' = <<r.h>>
                /\ out' = Out("verifier_deserialize", "P", r.thrown, FALSE)
    /\ UNCHANGED <<V, file, tag, st, chal, proof, wire, sent, enc, gc, pr, uses>>

----------------------------------------------------------------------------
(* The protocol between the verifier and the server *)

Next ==
    \/ Encode("V")
    \/ GenChallenge("V")
    \/ \E fresh \in BOOLEAN : Prove("V", fresh)
    \/ Verify("V")
    \/ FlipFileByte
    \/ NewRound

Spec == Init /\ [][Next]_vars

(* The protocol with the public form of the verifier on the server *)

NextPublic ==
    \/ GetPublic
    \/ \E w \in Who : Encode(w)
    \/ \E w \in Who : GenChallenge(w)
    \/ Prove("P", TRUE)
    \/ \E w \in Who : Verify(w)

(* the verifiers whose sectors hold at least a byte *)
InitSectors == Init /\ V.sector_size > 0

SpecPublic == InitSectors /\ [][NextPublic]_vars

(* One round on a file of MaxFileLen bytes in sectors of at least a byte,
   the stored state changed before the proof is verified *)

SealFile == [i \in 1..MaxFileLen |-> i % (MaxFileByte + 1)]

InitSeal == InitSectors /\ file = SealFile

NextSeal ==
    \/ Encode("V")
    \/ GenChallenge("V")
    \/ Prove("V", TRUE)
    \/ TamperState
    \/ Verify("V")

SpecSeal == InitSeal /\ [][NextSeal]_vars

(* The State object stored and read back *)

NextState ==
    \/ Encode("V")
    \/ StateSerialize
    \/ StateDeserialize
    \/ GenChallenge("V")

SpecState == Init /\ [][NextState]_vars

(* Rounds on a State object as encoded or as read back from its bytes *)

NextFrame ==
    \/ Encode("V")
    \/ StateSerialize
    \/ StateDeserialize
    \/ GenChallenge("V")
    \/ Prove("V", TRUE)
    \/ Verify("V")

SpecFrame == Init /\ [][NextFrame]_vars

(* Files encoded one after another into the same Tag and State objects *)

NextEncode ==
    \/ Encode("V")
    \/ Reencode

SpecEncode == InitSectors /\ [][NextEncode]_vars

(* The State object opened by hand, with the verifier's keys or with others *)

NextOpen ==
    \/ GetPublic
    \/ Encode("V")
    \/ StateSerialize
    \/ StateDeserialize
    \/ \E w \in Who : StateDecrypt(w)

SpecOpen == Init /\ [][NextOpen]_vars

(* One round in which the server answers with a proof of another shape *)

NextShape ==
    \/ Encode("V")
    \/ GenChallenge("V")
    \/ Prove("V", TRUE)
    \/ ReshapeProof
    \/ Verify("V")

SpecShape == InitSeal /\ [][NextShape]_vars

(* The wire codec on objects of any content *)

SeqsUpTo(S, k) == UNION {[1..n -> S] : n \in 0..k}
CodecValues == {0, 1, ByteRadix} \cup {p - 1 : p \in Primes}
Tags == [sigma : SeqsUpTo(CodecValues, MaxCodecLen)]
Proofs == [mu : SeqsUpTo(CodecValues, MaxCodecLen), sigma : CodecValues]
Challenges == [l : 0..MaxCodecLen, key : {<<>>} \cup {KeyBytes(k) : k \in KeySeeds},
               v_limit : {0} \cup Primes, i_limit : {0}]

InitCodec ==
    /\ \E s \in 1..MaxSectors, ke \in KeySeeds, p \in Primes :
         \E km \in KeySeeds \ {ke} :
            V = init(s, KeyBytes(ke), KeyBytes(km), p)
    /\ \/ tag \in Tags /\ proof = NewProof /\ chal = NewChallenge
       \/ tag = NewTag /\ proof \in Proofs /\ chal = NewChallenge
       \/ tag = NewTag /\ proof = NewProof /\ chal \in Challenges
    /\ pub = <<>>
    /\ file = <<>>
    /\ st = NewState
    /\ wire = <<>>
    /\ sent = <<>>
    /\ out = Out("gen", "V", FALSE, FALSE)
    /\ enc = <<>>
    /\ gc = <<>>
    /\ pr = <<>>
    /\ uses = 0

NextCodec ==
    \/ TagSerialize
    \/ TagDeserialize
    \/ ChallengeSerialize
    \/ ChallengeDeserialize
    \/ ProofSerialize
    \/ ProofDeserialize
    \/ VerifierSerialize
    \/ VerifierDeserialize

SpecCodec == InitCodec /\ [][NextCodec]_vars

----------------------------------------------------------------------------
(* Properties *)

(* the Tag, State, Challenge and Proof at hand are those of one honest round:
   encode, then gen_challenge on its state, then prove into a new Proof object
   on the file as encoded *)
HonestRound ==
    /\ enc # <<>> /\ gc # <<>> /\ pr # <<>>
    /\ tag = enc[1].t /\ st = enc[1].s
    /\ gc[1].s = enc[1].s /\ chal = gc[1].c
    /\ pr[1].c = gc[1].c /\ pr[1].t = enc[1].t
    /\ pr[1].file = enc[1].file /\ pr[1].fresh

(* the chunk count inside the envelope of s *)
EnvelopeN(s) == sig_n(raw_sig_data(s.raw))

(* C1: when the verifier encodes a file, challenges the state encode returned
   and the proof is computed into a new Proof object from the unchanged file,
   the tag and that challenge, verify returns true *)
C1_HonestProverAccepted ==
    (out.op = "verify" /\ out.by = "V" /\ HonestRound
        /\ enc[1].by = "V" /\ gc[1].by = "V")
      => (~out.thrown /\ out.res)

C1_Witness ==
    /\ out.op = "verify" /\ out.by = "V" /\ HonestRound
    /\ enc[1].by = "V" /\ gc[1].by = "V"
    /\ out.res
    /\ chal.l = MaxFileLen
    /\ \E i \in 1..Len(file) : file[i] # 0

(* C2: once one byte of the sealed state has changed, gen_challenge on it
   raises and produces no challenge (the Challenge at hand is still the one
   made from the unchanged state, or none), and verify on it returns false
   without raising *)
C2_SealIntegrity ==
    Tampered =>
      /\ out.op = "gen_challenge" => out.thrown
      /\ gc # <<>> => gc[1].s = enc[1].s
      /\ chal = (IF gc = <<>> THEN NewChallenge ELSE gc[1].c)
      /\ out.op = "verify" => (~out.thrown /\ ~out.res)

C2_Witness ==
    /\ Tampered
    /\ out.op = "verify" /\ ~out.thrown /\ ~out.res
    /\ gc # <<>> /\ chal = gc[1].c
    /\ pr # <<>> /\ pr[1].c = chal /\ pr[1].file = enc[1].file /\ pr[1].fresh
    /\ verify(V, proof, chal, enc[1].s).res
    /\ st.raw[Len(st.raw)] # enc[1].s.raw[Len(st.raw)]

(* C4: the verifier get_public returns has k_enc and k_mac zero and the p,
   sectors and sector_size of the private verifier, and every gen_challenge
   and verify on it is refused with an error *)
C4_PublicFormRefuses ==
    /\ (pub # <<>> /\ out.op = "get_public") =>
          /\ pub[1].k_enc = Zeros(KeySize) /\ pub[1].k_mac = Zeros(KeySize)
          /\ pub[1].p = V.p /\ pub[1].sectors = V.sectors
          /\ pub[1].sector_size = V.sector_size
    /\ (out.by = "P" /\ out.op \in {"gen_challenge", "verify"}) => out.thrown

(* C5: the tag and state that encode on the public form returns are accepted
   by the private verifier: its gen_challenge succeeds and its verify of the
   proof of an honest round returns true *)
C5_PublicEncodeAccepted ==
    (enc # <<>> /\ enc[1].by = "P" /\ st = enc[1].s /\ out.by = "V") =>
      /\ out.op = "gen_challenge" => ~out.thrown
      /\ (out.op = "verify" /\ HonestRound /\ gc[1].by = "V") => (~out.thrown /\ out.res)

(* C6: when the private verifier encodes and challenges and the public form
   proves, the private verifier's verify returns true, and the proof is the
   one the private verifier computes from the same file, challenge and tag,
   whatever the keys of the public form *)
C6_PublicProveAccepted ==
    (out.op = "verify" /\ out.by = "V" /\ HonestRound
        /\ enc[1].by = "V" /\ gc[1].by = "V" /\ pr[1].by = "P")
      => /\ ~out.thrown /\ out.res
         /\ proof = prove(V, NewProof, chal, file, get_chunk_count(file, V), tag).p

C6_Witness ==
    /\ out.op = "verify" /\ out.by = "V" /\ HonestRound
    /\ enc[1].by = "V" /\ gc[1].by = "V" /\ pr[1].by = "P"
    /\ out.res
    /\ pub[1].k_enc # V.k_enc /\ pub[1].k_mac # V.k_mac
    /\ chal.l = MaxFileLen
    /\ \E i \in 1..Len(file) : file[i] # 0

(* C7: deserialize of the bytes serialize wrote for a verifier gives a
   verifier with the same k_enc, k_mac, sectors, sector_size and p *)
C7_VerifierRoundTrip ==
    out.op = "verifier_deserialize" => (~out.thrown /\ pub[1] = sent[1])

(* C8: deserialize into a new object of the bytes serialize wrote gives a Tag
   with the same sigma, a Proof with the same mu and sigma, and a Challenge
   with the same l, key and B *)
C8_CodecRoundTrip ==
    /\ out.op = "tag_deserialize" => tag.sigma = sent[1].sigma
    /\ out.op = "proof_deserialize" =>
          (proof.mu = sent[1].mu /\ proof.sigma = sent[1].sigma)
    /\ out.op = "challenge_deserialize" =>
          /\ chal.l = sent[1].l /\ chal.key = sent[1].key
          /\ chal.v_limit = sent[1].v_limit

C8_Witness ==
    /\ out.op = "proof_deserialize"
    /\ Len(proof.mu) = MaxCodecLen
    /\ proof.mu[1] = 0 /\ proof.mu[2] > ByteRadix
    /\ proof.sigma > ByteRadix
    /\ proof = sent[1]

(* C9: the challenge of a gen_challenge that succeeds has l equal to the
   chunk count inside the envelope of the state passed in, and B equal to the
   verifier's p, also for a state read back by deserialize *)
C9_ChallengeAllChunks ==
    (out.op = "gen_challenge" /\ ~out.thrown) =>
      (chal.l = EnvelopeN(st) /\ chal.v_limit = V.p)

(* C10: serialize of a State writes its bytes when the state is sealed, and
   otherwise raises and writes nothing; deserialize leaves the state sealed;
   the state encode returns is sealed *)
C10_SealedOnlySerialization ==
    [][ /\ out'.op = "state_serialize" =>
             IF st.sealed
               THEN ~out'.thrown /\ wire' = <<Wire("state", PutU32(Len(st.raw)) \o st.raw)>>
               ELSE out'.thrown /\ wire' = wire
        /\ out'.op = "state_deserialize" => st'.sealed
        /\ (out'.op = "encode" /\ ~out'.thrown) => st'.sealed ]_vars

C10_Witness ==
    /\ out.op = "state_serialize" /\ ~out.thrown
    /\ st.sealed /\ enc # <<>> /\ st.raw = enc[1].s.raw
    /\ wire # <<>> /\ Len(wire[1].bytes) = WordBytes + Len(st.raw)
    /\ sent = <<state_deserialize(NewState, wire[1].bytes)>>


(* C11: gen_challenge and verify, whether they succeed, fail or throw, leave
   the State object they are given as it was (raw bytes, n, sealed flag, and
   so the bytes serialize writes) and leave the verifier's p, sectors,
   sector_size, k_enc and k_mac as they were *)
C11_CallsLeaveStateAlone ==
    [][out'.op \in {"gen_challenge", "verify"} =>
          /\ st' = st
          /\ state_serialize(st') = state_serialize(st)
          /\ V' = V /\ pub' = pub]_vars

(* a verify on a state read back from its bytes, whose own n and keys are not
   those inside the envelope that gen_challenge and verify opened *)
C11_Witness ==
    /\ out.op = "verify" /\ gc # <<>>
    /\ st.sealed /\ st.f_key = <<>> /\ st.n # EnvelopeN(st)

(* C12: verify of a proof whose number of mu values is not the verifier's
   number of sectors, fewer or more, ends in an error and returns neither
   true nor false *)
C12_ProofShapeChecked ==
    (/\ out.op = "verify" /\ out.by = "V"
     /\ gc # <<>> /\ chal = gc[1].c /\ st = enc[1].s
     /\ Len(proof.mu) # V.sectors) => out.thrown

(* C13: deserializing a Tag or a Proof whose bytes carry an integer >= p, or a
   Challenge whose B is above p, is rejected with an error and leaves no
   object that holds the out-of-range value *)
C13_RangeCheckedOnDeserialize ==
    /\ (/\ out.op = "tag_deserialize"
         /\ \E i \in DOMAIN sent[1].sigma : sent[1].sigma[i] >= V.p)
          => (out.thrown /\ \A i \in DOMAIN tag.sigma : tag.sigma[i] < V.p)
    /\ (/\ out.op = "proof_deserialize"
         /\ \/ sent[1].sigma >= V.p
            \/ \E j \in DOMAIN sent[1].mu : sent[1].mu[j] >= V.p)
          => (/\ out.thrown
              /\ proof.sigma < V.p
              /\ \A j \in DOMAIN proof.mu : proof.mu[j] < V.p)
    /\ (out.op = "challenge_deserialize" /\ sent[1].v_limit > V.p)
          => (out.thrown /\ chal.v_limit <= V.p)

(* sum over the first j sectors of chunk i of PRF_alpha(j) * sector(i, j) *)
RECURSIVE SectorSum(_, _, _, _)
SectorSum(s, f, i, j) ==
    IF j = 0 THEN 0
    ELSE SectorSum(s, f, i, j - 1)
           + PrfEvaluate(s.alpha_key, V.p, 2, j - 1) * get_sector(f, V, i, j - 1)

(* ceil(file_size / (sectors * sector_size)) *)
ChunksOf(f) ==
    IF Len(f) % ChunkSize(V) = 0 THEN Len(f) \div ChunkSize(V)
    ELSE Len(f) \div ChunkSize(V) + 1

(* C14: after encode of a file of n chunks the tag has exactly n entries,
   whatever it held before, the state has n chunks, and every
   sigma[i] = (PRF_f(i) + sum over j < s of PRF_alpha(j) * sector(i, j)) mod p,
   which lies in [0, p) *)
C14_EncodeFormula ==
    (out.op \in {"encode", "encode_again"} /\ ~out.thrown) =>
        /\ Len(tag.sigma) = ChunksOf(file)
        /\ st.n = ChunksOf(file) /\ EnvelopeN(st) = ChunksOf(file)
        /\ \A i \in 0..(ChunksOf(file) - 1) :
              /\ tag.sigma[i + 1] = (PrfEvaluate(st.f_key, V.p, 1, i)
                                      + SectorSum(st, file, i, V.sectors)) % V.p
              /\ tag.sigma[i + 1] \in 0..(V.p - 1)

(* a second encode, of a file of one chunk with a non-zero sector, into a tag
   that held the two authenticators of the first *)
C14_Witness ==
    /\ out.op = "encode_again"
    /\ Len(enc[1].t.sigma) = 2 /\ Len(tag.sigma) = 1
    /\ \E j \in 0..(V.sectors - 1) : get_sector(file, V, 0, j) > 0

(* C15: after check_sig_and_decrypt succeeds the state is no longer sealed,
   serialize of it is refused, and its n, f_key and alpha_key are those that
   were sealed; after it returns false the state is as it was *)
C15_DecryptOpensState ==
    [][(out'.op = "decrypt" /\ ~out'.thrown) =>
          IF out'.res
            THEN /\ ~st'.sealed
                 /\ state_serialize(st').thrown
                 /\ st'.n = EnvelopeN(st)
                 /\ st'.f_key = enc[1].s.f_key
                 /\ st'.alpha_key = enc[1].s.alpha_key
            ELSE st' = st]_vars

(* C16: the proof that prove leaves in the Proof object is the one computed
   from the file, the challenge, the tag, p and sectors alone, whatever the
   object held before (so a second prove with the same inputs leaves the same
   mu and sigma as the first), and every mu[j] and sigma lies in [0, p) *)
C16_ProveOverwrites ==
    (out.op = "prove" /\ out.by = "V" /\ ~out.thrown) =>
        /\ proof = prove(V, NewProof, chal, file,
                         IF ChunkSize(V) = 0 THEN 0 ELSE get_chunk_count(file, V), tag).p
        /\ proof.sigma \in 0..(V.p - 1)
        /\ \A j \in DOMAIN proof.mu : proof.mu[j] \in 0..(V.p - 1)

(* C17: every challenge that a successful gen_challenge returns has
   1 <= l <= n, n the chunk count of the state, also for the state of an
   empty file, and its index limit is n *)
C17_ChallengeBounds ==
    (out.op = "gen_challenge" /\ out.by = "V" /\ ~out.thrown /\ ChunkSize(V) > 0) =>
        /\ 1 <= chal.l
        /\ chal.l <= EnvelopeN(st)
        /\ chal.i_limit = EnvelopeN(st)

(* the number of bits of x *)
RECURSIVE BitLen(_)
BitLen(x) == IF x = 0 THEN 0 ELSE 1 + BitLen(x \div 2)

(* C18: after gen, for every prime the sampler can return, sector_size is at
   least 1 and its bits are fewer than those of p, so the chunk size
   sectors * sector_size is not zero and every sector read is below p *)
C18_SectorSizeBound ==
    /\ V.sector_size >= 1
    /\ V.sector_size * ByteBits < BitLen(V.p)
    /\ ChunkSize(V) > 0
    /\ ByteRadix ^ V.sector_size <= V.p

=============================================================================
